---------------------------- MODULE Spec2Model ----------------------------
(***************************************************************************)
(* A model of ape_starknet/ecosystems.py: the Starknet ecosystem's         *)
(* calldata serializer, returndata decoder, transaction factory, event     *)
(* log decoder and proxy resolver.                                         *)
(*                                                                         *)
(* Python values are tagged records [t |-> <type>, v |-> <payload>]:       *)
(*   "int"      v is the integer                                           *)
(*   "bool"     v is TRUE or FALSE                                         *)
(*   "str0x"    a "0x"-prefixed string, v is the number its digits spell   *)
(*   "str"      any other string, v is the text                            *)
(*   "HexBytes" v is the number the bytes spell, big-endian                *)
(*   "list"     v is the sequence of items                                 *)
(*   "dict"     v is the sequence of <<key, value>> pairs, in key order    *)
(* Python indices are 0-based and kept so; element i of a Python list is   *)
(* element i + 1 of the sequence that models it.                           *)
(***************************************************************************)
EXTENDS Integers, Sequences, FiniteSets, TLC

VARIABLES
    pc,                 \* which operation is running, and where it stands
    abi_inputs,         \* _encode_calldata: abi.inputs
    call_args,          \* _encode_calldata: call_args
    last_index,         \* _encode_calldata: last_index
    loop,               \* _encode_calldata: the loop's locals
    calldata,           \* _encode_calldata: the list returned, or Raised
    abi_outputs,        \* decode_returndata: abi.outputs
    raw_data,           \* decode_returndata: raw_data
    returndata,         \* decode_returndata: the value returned, or Raised
    kwargs,             \* create_transaction: the keyword arguments
    active_provider,    \* create_transaction: network_manager.active_provider
    txn,                \* create_transaction: the transaction returned, or Raised
    proxy_call,         \* _get_proxy_info: the contract type and what the chain answers
    consulted,          \* _get_proxy_info: the calls made to the contract and the client
    proxy_info,         \* _get_proxy_info: the StarknetProxy returned, or None
    events,             \* decode_logs: the candidate events
    logs,               \* decode_logs: the raw logs
    cursor,             \* decode_logs: where the generator is suspended
    delivered           \* decode_logs: the ContractLogs the consumer has received

encodeVars == <<abi_inputs, call_args, last_index, loop, calldata>>
returnVars == <<abi_outputs, raw_data, returndata>>
txnVars == <<kwargs, active_provider, txn>>
proxyVars == <<proxy_call, consulted, proxy_info>>
logVars == <<events, logs, cursor, delivered>>
vars == <<pc, encodeVars, returnVars, txnVars, proxyVars, logVars>>

-----------------------------------------------------------------------------
(* Bounds of the model *)

MaxInputs == 4
MaxArgs == 4
MaxOutputs == 3
MaxRaw == 4
MaxEvents == 2
MaxLogs == 2
MaxFields == 3
MaxData == 4

-----------------------------------------------------------------------------
(* Python values *)

PyInt(n) == [t |-> "int", v |-> n]
PyBool(b) == [t |-> "bool", v |-> b]
PyStr0x(n) == [t |-> "str0x", v |-> n]
PyStr(s) == [t |-> "str", v |-> s]
PyHexBytes(n) == [t |-> "HexBytes", v |-> n]
PyList(s) == [t |-> "list", v |-> s]
PyDict(s) == [t |-> "dict", v |-> s]

\* An exception leaving the operation
Raised == [t |-> "raise", v |-> "error"]

Min(a, b) == IF a < b THEN a ELSE b

\* str(type).endswith("*"), over the types the model uses
IsArrayType(type) == type \in {"felt*", "Uint256*"}

\* name.endswith("_len"), over the names the model uses
BaseNames == {"a", "b", "x", "", "arr"}
EndsWithLen(name) == \E base \in BaseNames : name = base \o "_len"

-----------------------------------------------------------------------------
(* Primitive codec and structural pre-encoder *)

encode_primitive_value(value) ==
    IF value.t = "bool" THEN PyInt(IF value.v THEN 1 ELSE 0)
    ELSE IF value.t = "int" THEN value
    ELSE IF value.t = "str0x" THEN PyInt(value.v)
    ELSE IF value.t = "HexBytes" THEN PyInt(value.v)
    ELSE value

RECURSIVE _pre_encode_value(_)
RECURSIVE _pre_encode_array(_)
RECURSIVE _pre_encode_struct(_)

_pre_encode_value(value) ==
    IF value.t = "dict" THEN _pre_encode_struct(value)
    ELSE IF value.t = "list" THEN _pre_encode_array(value)
    ELSE encode_primitive_value(value)

_pre_encode_array(array) ==
    IF array.t # "list"
    THEN _pre_encode_array(PyList(<<array>>))
    ELSE PyList([i \in 1..Len(array.v) |-> _pre_encode_value(array.v[i])])

_pre_encode_struct(struct) ==
    PyDict([i \in 1..Len(struct.v) |->
            <<struct.v[i][1], _pre_encode_value(struct.v[i][2])>>])

-----------------------------------------------------------------------------
(* Calldata serializer: the alignment loop of _encode_calldata *)

\* The locals before the first iteration. pos counts the pairs that
\* zip(call_args, abi.inputs) has handed out.
LoopStart ==
    [pos |-> 0, index |-> 0, did_process_array_during_arr_len |-> FALSE,
     pre_encoded_args |-> <<>>]

LastIndex(inputs, args) == Min(Len(inputs), Len(args)) - 1

\* One iteration of the for loop, on the pair at position st.pos.
LoopBody(inputs, args, last, st) ==
    LET call_arg == args[st.pos + 1]
        input_type == inputs[st.pos + 1]
    IN  IF IsArrayType(input_type.type)
        THEN IF st.did_process_array_during_arr_len
             THEN \* continue: the statements after the if, index += 1
                  \* among them, are not executed
                  [st EXCEPT !.did_process_array_during_arr_len = FALSE,
                             !.pos = @ + 1]
             ELSE [st EXCEPT !.pre_encoded_args =
                                 Append(@, _pre_encode_value(call_arg)),
                             !.index = @ + 1,
                             !.pos = @ + 1]
        ELSE IF /\ input_type.name # "None"
                /\ EndsWithLen(input_type.name)
                /\ st.index < last
                /\ IsArrayType(inputs[st.index + 2].type)
        THEN LET pre_encoded_arg == _pre_encode_value(call_arg)
             IN  IF pre_encoded_arg.t = "int"
                 THEN [st EXCEPT !.pre_encoded_args =
                                     Append(@, _pre_encode_array(args[st.index + 2])),
                                 !.did_process_array_during_arr_len = TRUE,
                                 !.index = @ + 1,
                                 !.pos = @ + 1]
                 ELSE [st EXCEPT !.pre_encoded_args = Append(@, pre_encoded_arg),
                                 !.index = @ + 1,
                                 !.pos = @ + 1]
        ELSE [st EXCEPT !.pre_encoded_args =
                            Append(@, _pre_encode_value(call_arg)),
                        !.index = @ + 1,
                        !.pos = @ + 1]

\* zip stops at the shorter of the two
LoopOver(inputs, args, st) == st.pos >= Min(Len(inputs), Len(args))

RECURSIVE RunLoop(_, _, _)
RunLoop(inputs, args, st) ==
    IF LoopOver(inputs, args, st) THEN st
    ELSE RunLoop(inputs, args, LoopBody(inputs, args, LastIndex(inputs, args), st))

\* The aligned argument list _encode_calldata hands to the serializer
AlignedArgs(inputs, args) == RunLoop(inputs, args, LoopStart).pre_encoded_args

\* FunctionCallSerializer.from_python: the declared inputs, less every
\* "<name>_len" of an array input <name>, take one argument each; a felt
\* gives one element, an array its length and then its elements.
ExpectedInputs(inputs) ==
    SelectSeq(inputs, LAMBDA inp :
        ~\E j \in 1..Len(inputs) :
            /\ IsArrayType(inputs[j].type)
            /\ inp.name = inputs[j].name \o "_len")

IsFeltList(value) ==
    /\ value.t = "list"
    /\ \A i \in 1..Len(value.v) : value.v[i].t = "int"

RECURSIVE Flatten(_, _)
Flatten(expected, args) ==
    IF expected = <<>> THEN <<>>
    ELSE (IF IsArrayType(Head(expected).type)
          THEN <<Len(Head(args).v)>>
                   \o [i \in 1..Len(Head(args).v) |-> Head(args).v[i].v]
          ELSE <<Head(args).v>>)
         \o Flatten(Tail(expected), Tail(args))

from_python(inputs, args) ==
    LET expected == ExpectedInputs(inputs)
    IN  IF Len(args) # Len(expected) THEN Raised
        ELSE IF \E i \in 1..Len(expected) :
                    IF IsArrayType(expected[i].type)
                    THEN ~IsFeltList(args[i])
                    ELSE args[i].t # "int"
        THEN Raised
        ELSE PyList(Flatten(expected, args))

\* Inputs of the model: signatures over distinct names, argument lists
LenInput(base) == [name |-> base \o "_len", type |-> "felt"]
ArrInput(base) == [name |-> base, type |-> "felt*"]
FeltInput(name) == [name |-> name, type |-> "felt"]
InputPool == {LenInput("a"), ArrInput("a"), LenInput("b"), ArrInput("b"),
              FeltInput("x")}

SeqsUpTo(S, n) == UNION {[1..k -> S] : k \in 0..n}

Signatures ==
    {s \in SeqsUpTo(InputPool, MaxInputs) :
        /\ Len(s) >= 1
        /\ \A i, j \in 1..Len(s) : i # j => s[i].name # s[j].name}

ArgPool == {PyInt(2), PyStr0x(3), PyList(<<PyInt(1), PyBool(TRUE)>>)}
ArgLists == SeqsUpTo(ArgPool, MaxArgs)

EncodeCall ==
    /\ pc = "idle"
    /\ \E inputs \in Signatures, args \in ArgLists :
        /\ abi_inputs' = inputs
        /\ call_args' = args
        /\ last_index' = LastIndex(inputs, args)
        /\ loop' = LoopStart
    /\ pc' = "encode_loop"
    /\ UNCHANGED <<calldata, returnVars, txnVars, proxyVars, logVars>>

EncodeStep ==
    /\ pc = "encode_loop"
    /\ ~LoopOver(abi_inputs, call_args, loop)
    /\ loop' = LoopBody(abi_inputs, call_args, last_index, loop)
    /\ UNCHANGED <<pc, abi_inputs, call_args, last_index, calldata, returnVars, txnVars,
                   proxyVars, logVars>>

EncodeReturn ==
    /\ pc = "encode_loop"
    /\ LoopOver(abi_inputs, call_args, loop)
    /\ calldata' = from_python(abi_inputs, loop.pre_encoded_args)
    /\ pc' = "encode_done"
    /\ UNCHANGED <<abi_inputs, call_args, last_index, loop, returnVars, txnVars,
                   proxyVars, logVars>>

-----------------------------------------------------------------------------
(* Returndata decoder *)

PyTuple(s) == [t |-> "tuple", v |-> s]

\* FunctionCallSerializer.to_python: one value per declared output, less
\* every "<name>_len" of an array output <name>; a felt reads one element,
\* an array reads its length and then that many elements. Reading past the
\* end, or leaving elements unread, raises.
RECURSIVE ReadValues(_, _)
ReadValues(expected, values) ==
    IF expected = <<>>
    THEN IF values = <<>> THEN PyTuple(<<>>) ELSE Raised
    ELSE IF values = <<>> THEN Raised
    ELSE IF IsArrayType(Head(expected).type)
    THEN LET length == Head(values).v
         IN  IF length < 0 \/ length > Len(values) - 1 THEN Raised
             ELSE LET rest == ReadValues(Tail(expected),
                                         SubSeq(values, length + 2, Len(values)))
                  IN  IF rest = Raised THEN Raised
                      ELSE PyTuple(<<PyList(SubSeq(values, 2, length + 1))>>
                                   \o rest.v)
    ELSE LET rest == ReadValues(Tail(expected), Tail(values))
         IN  IF rest = Raised THEN Raised
             ELSE PyTuple(<<Head(values)>> \o rest.v)

to_python(outputs, values) == ReadValues(ExpectedInputs(outputs), values)

\* decode_returndata collapsing only a single output
decode_returndata_SingleOutputOnly(outputs, raw) ==
    IF raw.v = <<>> THEN raw
    ELSE LET encoded == [i \in 1..Len(raw.v) |-> encode_primitive_value(raw.v[i])]
             decoded == to_python(outputs, encoded)
         IN  IF decoded = Raised THEN Raised
             ELSE IF Len(outputs) = 1
             THEN decoded.v[1]
             ELSE decoded

\* if not raw_data: return raw_data ... return decoded
decode_returndata(outputs, raw) ==
    IF raw.v = <<>> THEN raw
    ELSE LET encoded == [i \in 1..Len(raw.v) |-> encode_primitive_value(raw.v[i])]
             decoded == to_python(outputs, encoded)
         IN  IF decoded = Raised THEN Raised
             ELSE IF \/ Len(outputs) = 1
                     \/ (Len(outputs) = 2 /\ IsArrayType(outputs[2].type))
             THEN decoded.v[1]
             ELSE decoded

OutputPool == {LenInput("arr"), ArrInput("arr"), FeltInput("x"), FeltInput("y")}
OutputLists ==
    {s \in SeqsUpTo(OutputPool, MaxOutputs) :
        \A i, j \in 1..Len(s) : i # j => s[i].name # s[j].name}
RawPool == {PyInt(1), PyInt(2), PyStr0x(3)}
RawLists == SeqsUpTo(RawPool, MaxRaw)

DecodeReturndata ==
    /\ pc = "idle"
    /\ \E outputs \in OutputLists, raw \in RawLists :
        /\ abi_outputs' = outputs
        /\ raw_data' = PyList(raw)
        /\ returndata' = decode_returndata(outputs, PyList(raw))
    /\ pc' = "return_done"
    /\ UNCHANGED <<encodeVars, txnVars, proxyVars, logVars>>

-----------------------------------------------------------------------------
(* Transaction factory *)

PyNone == [t |-> "None", v |-> 0]
MethodABI(name) == [t |-> "MethodABI", v |-> name]
Address(n) == [t |-> "address", v |-> n]
Bytecode(n) == [t |-> "bytecode", v |-> n]

\* Python's truth value of an object
Truthy(value) ==
    IF value.t = "None" THEN FALSE
    ELSE IF value.t = "int" THEN value.v # 0
    ELSE IF value.t = "bool" THEN value.v
    ELSE IF value.t \in {"list", "tuple", "dict"} THEN value.v # <<>>
    ELSE IF value.t = "str" THEN value.v # ""
    ELSE TRUE

\* A dict is a function from the keys present; d.get(key) and d.pop(key)
Get(d, key) == IF key \in DOMAIN d THEN d[key] ELSE PyNone
Without(d, key) == [k \in (DOMAIN d) \ {key} |-> d[k]]
With(d, key, value) == [k \in (DOMAIN d) \cup {key} |->
                            IF k = key THEN value ELSE d[k]]

\* ape_starknet.utils.EXECUTE_ABI
EXECUTE_ABI == MethodABI("__execute__")

\* starkware's get_selector_from_name: a hash of the name, injective over
\* the names the model uses
get_selector_from_name(name) ==
    CASE name = "transfer" -> 11
      [] name = "approve" -> 12
      [] name = "Transfer" -> 21
      [] name = "Approval" -> 22
      [] name = "Mint" -> 23
      [] OTHER -> 99

\* ape_starknet.utils.to_checksum_address, behind decode_address: the
\* checksummed hex string of the number an integer, a hex string or an
\* address spells
decode_address(raw_address) == Address(raw_address.v)

\* chain_manager.contracts.get and get_contract_type: the contract types
\* known by address; get_local_contract_type: those known by class hash
ContractTypes ==
    (1 :> [name |-> "Token", methods |-> <<"transfer", "approve">>,
           deployment_bytecode |-> Bytecode(1)])
ContractsGet(address) ==
    IF address.v \in DOMAIN ContractTypes THEN ContractTypes[address.v] ELSE PyNone
LocalContractTypes ==
    (7 :> [name |-> "Account", methods |-> <<"__execute__">>,
           deployment_bytecode |-> Bytecode(7)])
get_local_contract_type(class_hash) ==
    IF class_hash.v \in DOMAIN LocalContractTypes
    THEN LocalContractTypes[class_hash.v] ELSE PyNone
get_contract_type(address) == ContractsGet(address)

\* ape_starknet.utils.get_method_abi_from_selector: the method of the
\* contract type whose name hashes to the selector; none raises
get_method_abi_from_selector(selector, contract_type) ==
    IF \E i \in 1..Len(contract_type.methods) :
           get_selector_from_name(contract_type.methods[i]) = selector.v
    THEN MethodABI(CHOOSE m \in {contract_type.methods[i] :
                                    i \in 1..Len(contract_type.methods)} :
                       get_selector_from_name(m) = selector.v)
    ELSE Raised

\* provider.chain_id
ProviderChainId == PyInt(5)

\* TransactionType(kwargs.pop("type", kwargs.pop("tx_type", ""))): a kind is
\* written by the name of its enum member; any other value, the default ""
\* among them, is no member and raises
TransactionTypes == {"DECLARE", "DEPLOY", "DEPLOY_ACCOUNT", "INVOKE_FUNCTION",
                     "L1_HANDLER"}
PoppedType(kw) ==
    IF "type" \in DOMAIN kw THEN kw["type"]
    ELSE IF "tx_type" \in DOMAIN kw THEN kw["tx_type"]
    ELSE PyStr("")

\* Lines 317-337: txn_data before the dispatch on the kind
TxnDataWithChainId(kw, provider) ==
    LET txn_data == With(Without(Without(kw, "tx_type"), "type"),
                         "signature", PyNone)
    IN  IF "chain_id" \notin DOMAIN txn_data /\ provider
        THEN With(txn_data, "chain_id", ProviderChainId)
        ELSE txn_data

TxnDataWithContract(txn_data) ==
    IF "contract_address" \in DOMAIN txn_data
    THEN LET contract_address == decode_address(txn_data["contract_address"])
             with_address == With(txn_data, "contract_address", contract_address)
             local == IF "class_hash" \in DOMAIN txn_data
                      THEN get_local_contract_type(txn_data["class_hash"])
                      ELSE PyNone
             contract_type == IF local = PyNone
                              THEN get_contract_type(contract_address)
                              ELSE local
         IN  IF contract_type # PyNone
             THEN With(with_address, "data", contract_type.deployment_bytecode)
             ELSE with_address
    ELSE txn_data

\* Lines 344-355: the method signature of an invoke transaction; Raised
\* when the target's address is missing or its contract type is unknown
InvokeMethodABI(txn_data) ==
    IF ~Truthy(Get(txn_data, "method_abi"))
       /\ Truthy(Get(txn_data, "entry_point_selector"))
    THEN IF "contract_address" \notin DOMAIN txn_data THEN Raised
         ELSE LET target_address == decode_address(txn_data["contract_address"])
                  target_contract_type == ContractsGet(target_address)
              IN  IF target_contract_type = PyNone THEN Raised
                  ELSE get_method_abi_from_selector(
                           txn_data["entry_point_selector"], target_contract_type)
    ELSE \* Assume __execute__
         EXECUTE_ABI

\* Lines 357-365
TxnDataNormalized(txn_data) ==
    LET with_calldata ==
            IF "calldata" \in DOMAIN txn_data /\ txn_data["calldata"] # PyNone
            THEN With(txn_data, "calldata",
                      PyList([i \in 1..Len(txn_data["calldata"].v) |->
                                 encode_primitive_value(txn_data["calldata"].v[i])]))
            ELSE txn_data
    IN  IF "contract_address" \in DOMAIN with_calldata
        THEN With(Without(with_calldata, "contract_address"),
                  "receiver", with_calldata["contract_address"])
        ELSE with_calldata

Transaction(cls, txn_data) == [t |-> cls, v |-> txn_data]

create_transaction(kw, provider) ==
    LET txn_type == PoppedType(kw).v
        invoking == txn_type = "INVOKE_FUNCTION"
        txn_data == TxnDataWithContract(TxnDataWithChainId(kw, provider))
    IN  IF txn_type \notin TransactionTypes THEN Raised
        ELSE IF ~invoking
        THEN IF txn_type = "DECLARE"
             THEN Transaction("DeclareTransaction", txn_data)
             ELSE IF txn_type = "DEPLOY_ACCOUNT"
             THEN Transaction("DeployAccountTransaction", txn_data)
             ELSE \* txn_cls was never bound
                  Raised
        ELSE LET method_abi == InvokeMethodABI(txn_data)
             IN  IF method_abi = Raised THEN Raised
                 ELSE Transaction("InvokeFunctionTransaction",
                          TxnDataNormalized(With(txn_data, "method_abi", method_abi)))

\* Inputs of the model: each keyword is absent or has one of a few values
Absent == [t |-> "absent", v |-> 0]
Opt(key, value) == IF value = Absent THEN <<>> ELSE (key :> value)
KwargsChoices ==
    {Opt(tk[1], tk[2]) @@ Opt("method_abi", m) @@ Opt("entry_point_selector", s)
        @@ Opt("contract_address", a) @@ Opt("calldata", c)
        @@ Opt("class_hash", h) @@ Opt("chain_id", ch) :
        tk \in {<<"type", Absent>>}
                 \cup ({"type", "tx_type"}
                         \X {PyStr("INVOKE_FUNCTION"), PyStr("DECLARE"),
                             PyStr("DEPLOY_ACCOUNT"), PyStr("DEPLOY"),
                             PyStr("bogus")}),
        m \in {Absent, PyNone, MethodABI("transfer")},
        s \in {Absent, PyInt(0), PyInt(get_selector_from_name("approve")),
               PyInt(get_selector_from_name("mint"))},
        a \in {Absent, PyInt(1), PyInt(2)},
        c \in {Absent, PyNone, PyList(<<PyStr0x(5), PyInt(1)>>)},
        h \in {Absent, PyInt(7)},
        ch \in {Absent, PyInt(9)}}

CreateTransaction ==
    /\ pc = "idle"
    /\ \E kw \in KwargsChoices, provider \in BOOLEAN :
        /\ kwargs' = kw
        /\ active_provider' = provider
        /\ txn' = create_transaction(kw, provider)
    /\ pc' = "txn_done"
    /\ UNCHANGED <<encodeVars, returnVars, proxyVars, logVars>>

-----------------------------------------------------------------------------
(* Proxy resolver *)

StarknetProxy(target, type) == [t |-> "StarknetProxy", target |-> target, type |-> type]

\* The resolver's answer and the calls it made. call.view_methods are the
\* names in contract_type.view_methods; call.implementation and
\* call.get_implementation are what the two view methods return when
\* invoked; call.client tells whether provider.client is not None and
\* call.storage is what get_storage_at_sync returns for OZ_PROXY_STORAGE_KEY.
\* A member of the ProxyType enum is always true.
ProxyResult(target, proxy_type, calls) ==
    [info |-> IF Truthy(target) /\ proxy_type # "None"
              THEN StarknetProxy(decode_address(target), proxy_type)
              ELSE PyNone,
     calls |-> calls]

\* _get_proxy_info with the Argent-X check ahead of the legacy check
_get_proxy_info_ArgentFirst(call) ==
    IF "get_implementation" \in call.view_methods
    THEN ProxyResult(call.get_implementation, "ARGENT_X", {"get_implementation"})
    ELSE IF "implementation" \in call.view_methods
    THEN ProxyResult(call.implementation, "LEGACY", {"implementation"})
    ELSE IF call.client
    THEN IF call.storage = PyStr0x(0)
         THEN ProxyResult(PyNone, "None", {"get_storage_at_sync"})
         ELSE ProxyResult(call.storage, "OPEN_ZEPPELIN", {"get_storage_at_sync"})
    ELSE ProxyResult(PyNone, "None", {})

_get_proxy_info(call) ==
    IF "implementation" \in call.view_methods
    THEN ProxyResult(call.implementation, "LEGACY", {"implementation"})
    ELSE IF "get_implementation" \in call.view_methods
    THEN ProxyResult(call.get_implementation, "ARGENT_X", {"get_implementation"})
    ELSE IF call.client
    THEN IF call.storage = PyStr0x(0)
         THEN ProxyResult(PyNone, "None", {"get_storage_at_sync"})
         ELSE ProxyResult(call.storage, "OPEN_ZEPPELIN", {"get_storage_at_sync"})
    ELSE ProxyResult(PyNone, "None", {})

ProxyCalls ==
    [view_methods : SUBSET {"implementation", "get_implementation", "balance_of"},
     implementation : {PyInt(0), PyInt(1), PyInt(2)},
     get_implementation : {PyInt(0), PyInt(3)},
     client : BOOLEAN,
     storage : {PyStr0x(0), PyStr0x(4), PyInt(0)}]

GetProxyInfo ==
    /\ pc = "idle"
    /\ \E call \in ProxyCalls :
        /\ proxy_call' = call
        /\ consulted' = _get_proxy_info(call).calls
        /\ proxy_info' = _get_proxy_info(call).info
    /\ pc' = "proxy_done"
    /\ UNCHANGED <<encodeVars, returnVars, txnVars, logVars>>

-----------------------------------------------------------------------------
(* Event log decoder *)

\* A Python integer of up to 256 bits, written in base 2^128: the record
\* [lo |-> l, hi |-> h] is the integer l + h * 2^128, with 0 <= l, h < 2^128.
\* Every data slot of the model is below 2^128, so no addition carries.
Wide(l, h) == [lo |-> l, hi |-> h]

\* low + (high << 128)
from_uint(low, high) == Wide(low, high)

\* decode_items: position is how far iter_data has been read; next(iter_data,
\* None) gives data[position] and moves on, or None at the end of the data.
RECURSIVE DecodeItemsFrom(_, _, _, _)
DecodeItemsFrom(abi_types, data, position, decoded) ==
    IF abi_types = <<>> THEN decoded
    ELSE IF Head(abi_types).type = "Uint256"
    THEN LET has_1 == position < Len(data)
             has_2 == position + 1 < Len(data)
         IN  DecodeItemsFrom(Tail(abi_types), data,
                 Min(position + 2, Len(data)),
                 IF has_1 /\ has_2
                 THEN Append(decoded, from_uint(data[position + 1], data[position + 2]))
                 ELSE decoded)
    ELSE LET has_item == position < Len(data)
         IN  DecodeItemsFrom(Tail(abi_types), data,
                 Min(position + 1, Len(data)),
                 \* if next_item: None and 0 are both false
                 IF has_item /\ data[position + 1] # 0
                 THEN Append(decoded, Wide(data[position + 1], 0))
                 ELSE decoded)

decode_items(abi_types, data) == DecodeItemsFrom(abi_types, data, 0, <<>>)

\* dict(zip(names, values)): a later pair replaces an earlier one of its name
ZipDict(names, values) ==
    LET n == Min(Len(names), Len(values))
    IN  [name \in {names[i] : i \in 1..n} |->
            values[CHOOSE i \in 1..n :
                       /\ names[i] = name
                       /\ \A j \in (i + 1)..n : names[j] # name]]

\* A match on the first key alone: s == log["keys"][0]
InKeysFirstOnly(selector, log) ==
    log["keys"] # <<>> /\ log["keys"][1] = selector

\* s in log["keys"]
InKeys(selector, log) == \E i \in 1..Len(log["keys"]) : log["keys"][i] = selector

\* The keys of events_by_selector in insertion order: each selector once,
\* at the place of its first event
RECURSIVE SelectorOrder(_)
SelectorOrder(evs) ==
    IF evs = <<>> THEN <<>>
    ELSE LET front == SelectorOrder(SubSeq(evs, 1, Len(evs) - 1))
             selector == get_selector_from_name(evs[Len(evs)].name)
         IN  IF \E i \in 1..Len(front) : front[i] = selector
             THEN front ELSE Append(front, selector)

\* events_by_selector[selector]: the last event of that selector
EventBySelector(evs, selector) ==
    evs[CHOOSE i \in 1..Len(evs) :
            /\ get_selector_from_name(evs[i].name) = selector
            /\ \A j \in (i + 1)..Len(evs) :
                   get_selector_from_name(evs[j].name) # selector]

\* log_map.items() with the empty groups left out before enumerate
LogMapItemsNonEmpty(evs, raw_logs) ==
    SelectSeq([g \in 1..Len(SelectorOrder(evs)) |->
                  <<SelectorOrder(evs)[g],
                    SelectSeq(raw_logs, LAMBDA log : InKeys(SelectorOrder(evs)[g], log))>>],
              LAMBDA item : item[2] # <<>>)

\* list(log_map.items()): one <<selector, logs>> pair per selector
LogMapItems(evs, raw_logs) ==
    [g \in 1..Len(SelectorOrder(evs)) |->
        <<SelectorOrder(evs)[g],
          SelectSeq(raw_logs, LAMBDA log : InKeys(SelectorOrder(evs)[g], log))>>]

\* The keys a raw log must have for its ContractLog to be built
LogFields == {"data", "block_hash", "block_number", "from_address",
              "transaction_hash"}

\* The ContractLog yielded for one log of the group at enumeration index
ContractLog(abi, log, index) ==
    [block_hash |-> log["block_hash"],
     block_number |-> log["block_number"],
     contract_address |-> decode_address(PyInt(log["from_address"])),
     event_arguments |-> ZipDict([i \in 1..Len(abi.inputs) |-> abi.inputs[i].name],
                                 decode_items(abi.inputs, log["data"])),
     event_name |-> abi.name,
     log_index |-> index,
     transaction_hash |-> log["transaction_hash"],
     transaction_index |-> 0]

\* Running the generator from where it is suspended to its next yield:
\* cur.group is the enumeration index of the group at hand and cur.at the
\* number of its logs already yielded. The outcome is a yield, the end of
\* the generator, or an exception raised from its body.
RECURSIVE Resume(_, _, _)
Resume(evs, raw_logs, cur) ==
    LET items == LogMapItems(evs, raw_logs)
    IN  IF cur.group >= Len(items) THEN [kind |-> "stop", cursor |-> cur]
        ELSE LET selector == items[cur.group + 1][1]
                 group == items[cur.group + 1][2]
                 abi == EventBySelector(evs, selector)
             IN  IF cur.at >= Len(group)
                 THEN Resume(evs, raw_logs, [group |-> cur.group + 1, at |-> 0])
                 ELSE LET log == group[cur.at + 1]
                      IN  IF ~(LogFields \subseteq DOMAIN log)
                          THEN [kind |-> "raise", cursor |-> cur]
                          ELSE [kind |-> "yield",
                                cursor |-> [cur EXCEPT !.at = @ + 1],
                                value |-> ContractLog(abi, log, cur.group)]

\* Inputs of the model. Events: a name and its fields.
EventABI(name, inputs) == [name |-> name, inputs |-> inputs]
Field(name, type) == [name |-> name, type |-> type]

EventPool ==
    {EventABI("Transfer", <<Field("sender", "felt"), Field("amount", "Uint256")>>),
     EventABI("Approval", <<Field("owner", "felt"), Field("spender", "felt")>>),
     EventABI("Mint", <<Field("amount", "Uint256")>>)}
EventLists == SeqsUpTo(EventPool, MaxEvents)

RawLog(keys, data, number) ==
    ("keys" :> keys) @@ ("data" :> data) @@ ("block_hash" :> 100 + number)
        @@ ("block_number" :> number) @@ ("from_address" :> 1)
        @@ ("transaction_hash" :> number)

\* The logs of a list carry their place in it as transaction hash
KeysPool == {<<21>>, <<22>>, <<21, 22>>, <<5>>, <<5, 22>>}
DataPool == {<<3, 1, 2>>}
LogLists ==
    UNION {{[i \in 1..n |->
                IF choice[i][3]
                THEN RawLog(choice[i][1], choice[i][2], i)
                ELSE Without(RawLog(choice[i][1], choice[i][2], i), "block_hash")] :
             choice \in [1..n -> KeysPool \X DataPool \X BOOLEAN]} :
           n \in 0..MaxLogs}

\* One event of any shape and one log of it with any data
FieldNames == <<"f1", "f2", "f3", "f4", "f5">>
FieldLists ==
    {[i \in 1..Len(types) |-> Field(FieldNames[i], types[i])] :
        types \in SeqsUpTo({"felt", "Uint256"}, MaxFields) \ {<<>>}}
DataLists == SeqsUpTo({0, 5}, MaxData)

DecodeLogsInputs ==
    (EventLists \X LogLists)
    \cup {<<<<EventABI("Transfer", fields)>>, <<RawLog(<<21>>, data, 1)>>>> :
            fields \in FieldLists, data \in DataLists}

\* Calling decode_logs makes the generator; none of its body has run
DecodeLogsCall ==
    /\ pc = "idle"
    /\ \E input \in DecodeLogsInputs :
        /\ events' = input[1]
        /\ logs' = input[2]
    /\ cursor' = [group |-> 0, at |-> 0]
    /\ delivered' = <<>>
    /\ pc' = "logs_suspended"
    /\ UNCHANGED <<encodeVars, returnVars, txnVars, proxyVars>>

\* The consumer asks for the next ContractLog
DecodeLogsNext ==
    /\ pc = "logs_suspended"
    /\ LET outcome == Resume(events, logs, cursor)
       IN  /\ cursor' = outcome.cursor
           /\ delivered' = IF outcome.kind = "yield"
                           THEN Append(delivered, outcome.value)
                           ELSE delivered
           /\ pc' = IF outcome.kind = "yield" THEN "logs_suspended"
                    ELSE IF outcome.kind = "stop" THEN "logs_exhausted"
                    ELSE "logs_failed"
    /\ UNCHANGED <<events, logs, encodeVars, returnVars, txnVars, proxyVars>>

-----------------------------------------------------------------------------

Init ==
    /\ pc = "idle"
    /\ abi_inputs = <<>>
    /\ call_args = <<>>
    /\ last_index = 0
    /\ loop = LoopStart
    /\ calldata = PyList(<<>>)
    /\ abi_outputs = <<>>
    /\ raw_data = PyList(<<>>)
    /\ returndata = PyList(<<>>)
    /\ kwargs = <<>>
    /\ active_provider = FALSE
    /\ txn = PyNone
    /\ proxy_call = [view_methods |-> {}, implementation |-> PyInt(0),
                     get_implementation |-> PyInt(0), client |-> FALSE,
                     storage |-> PyStr0x(0)]
    /\ consulted = {}
    /\ proxy_info = PyNone
    /\ events = <<>>
    /\ logs = <<>>
    /\ cursor = [group |-> 0, at |-> 0]
    /\ delivered = <<>>

NextEncode == EncodeCall \/ EncodeStep \/ EncodeReturn

SpecEncode == Init /\ [][NextEncode]_vars

NextReturn == DecodeReturndata

SpecReturn == Init /\ [][NextReturn]_vars

NextTxn == CreateTransaction

SpecTxn == Init /\ [][NextTxn]_vars

NextProxy == GetProxyInfo

SpecProxy == Init /\ [][NextProxy]_vars

NextLogs == DecodeLogsCall \/ DecodeLogsNext

SpecLogs == Init /\ [][NextLogs]_vars

Next == NextEncode \/ NextReturn \/ NextTxn \/ NextProxy \/ NextLogs

Spec == Init /\ [][Next]_vars

-----------------------------------------------------------------------------
(* Properties of the calldata serializer *)

\* Every "_len" input is a felt directly followed by an array, and every
\* array directly follows its "_len" input
PairedSignature(inputs) ==
    \A i \in 1..Len(inputs) :
        /\ EndsWithLen(inputs[i].name) =>
               /\ ~IsArrayType(inputs[i].type)
               /\ i < Len(inputs)
               /\ IsArrayType(inputs[i + 1].type)
        /\ IsArrayType(inputs[i].type) =>
               /\ i > 1
               /\ EndsWithLen(inputs[i - 1].name)

\* One argument per input: an integer for a length, a list for an array,
\* a scalar for the rest
SuppliedWithLengths(inputs, args) ==
    /\ Len(args) = Len(inputs)
    /\ \A i \in 1..Len(inputs) :
        IF IsArrayType(inputs[i].type) THEN args[i].t = "list"
        ELSE IF EndsWithLen(inputs[i].name) THEN args[i].t = "int"
        ELSE args[i].t \in {"int", "bool", "str0x", "HexBytes"}

\* The same call with the length arguments left out
RECURSIVE LengthsOmitted(_, _)
LengthsOmitted(inputs, args) ==
    IF inputs = <<>> THEN <<>>
    ELSE IF EndsWithLen(Head(inputs).name)
    THEN LengthsOmitted(Tail(inputs), Tail(args))
    ELSE <<Head(args)>> \o LengthsOmitted(Tail(inputs), Tail(args))

\* C1: for a signature whose "_len" inputs are each directly followed by an
\* array, a call that supplies an integer length before each array gives the
\* same aligned argument list, and the same calldata, as the call that
\* leaves the lengths out.
C1_LengthContentConsistency ==
    (/\ pc = "encode_done"
     /\ PairedSignature(abi_inputs)
     /\ SuppliedWithLengths(abi_inputs, call_args))
    => LET omitted == AlignedArgs(abi_inputs, LengthsOmitted(abi_inputs, call_args))
       IN  /\ loop.pre_encoded_args = omitted
           /\ calldata = from_python(abi_inputs, omitted)

\* C8: at the start of every iteration of the alignment loop, index is the
\* position of the current declared input and positional argument, also
\* after a skipped array position.
C8_LockStep ==
    (pc = "encode_loop" /\ ~LoopOver(abi_inputs, call_args, loop))
    => loop.index = loop.pos

-----------------------------------------------------------------------------
(* Properties of the returndata decoder *)

StructurallyDecoded ==
    to_python(abi_outputs,
              [i \in 1..Len(raw_data.v) |-> encode_primitive_value(raw_data.v[i])])

CollapsingShape(outputs) ==
    \/ Len(outputs) = 1
    \/ (Len(outputs) = 2 /\ IsArrayType(outputs[2].type))

\* C2: empty flat data is returned unchanged; for non-empty flat data the
\* result is the first element of the structurally decoded sequence exactly
\* when the signature declares one output, or two of which the second is an
\* array, and the whole decoded sequence for every other shape.
C2_CollapsingRule ==
    pc = "return_done" =>
        /\ raw_data.v = <<>> => returndata = raw_data
        /\ (raw_data.v # <<>> /\ StructurallyDecoded # Raised) =>
               /\ CollapsingShape(abi_outputs)
                      <=> returndata = StructurallyDecoded.v[1]
               /\ ~CollapsingShape(abi_outputs)
                      <=> returndata = StructurallyDecoded

\* A (len, array) signature whose flat data decoded to the array itself
C2_Witness ==
    /\ pc = "return_done"
    /\ Len(abi_outputs) = 2
    /\ IsArrayType(abi_outputs[2].type)
    /\ Len(raw_data.v) = 3
    /\ returndata = PyList(<<PyInt(1), PyInt(3)>>)

-----------------------------------------------------------------------------
(* Properties of the transaction factory *)

\* C3: an invoke transaction carries the method signature supplied as
\* method_abi when one is supplied; else, when an entry point selector is
\* supplied, the method of the target's known contract type with that
\* selector, and construction fails when the target is unknown; else the
\* __execute__ signature.
C3_MethodSignatureResolution ==
    (pc = "txn_done" /\ PoppedType(kwargs).v = "INVOKE_FUNCTION") =>
        LET supplied == Get(kwargs, "method_abi")
            selector == Get(kwargs, "entry_point_selector")
            known == /\ "contract_address" \in DOMAIN kwargs
                     /\ kwargs["contract_address"].v \in DOMAIN ContractTypes
        IN  IF supplied # PyNone
            THEN txn # Raised /\ txn.v["method_abi"] = supplied
            ELSE IF Truthy(selector)
            THEN IF known
                 THEN txn # Raised =>
                          get_selector_from_name(txn.v["method_abi"].v) = selector.v
                 ELSE txn = Raised
            ELSE selector = PyNone =>
                     txn # Raised /\ txn.v["method_abi"] = EXECUTE_ABI

-----------------------------------------------------------------------------
(* Properties of the proxy resolver *)

\* C6, as claimed: a contract type with the view method implementation,
\* which returns X, resolves to a LEGACY descriptor of target X, whatever
\* else is there, and nothing but implementation is consulted.
C6_LegacyForEveryTarget ==
    (pc = "proxy_done" /\ "implementation" \in proxy_call.view_methods) =>
        /\ proxy_info = StarknetProxy(Address(proxy_call.implementation.v), "LEGACY")
        /\ consulted = {"implementation"}

\* C6, amended: the same for every X other than 0; for X = 0 the resolver
\* returns None; either way nothing but implementation is consulted.
C6_LegacyForNonZeroTarget ==
    (pc = "proxy_done" /\ "implementation" \in proxy_call.view_methods) =>
        /\ proxy_call.implementation.v # 0 =>
               proxy_info = StarknetProxy(Address(proxy_call.implementation.v), "LEGACY")
        /\ proxy_call.implementation.v = 0 => proxy_info = PyNone
        /\ consulted = {"implementation"}

\* Both view methods and a client with a set storage slot are there, and
\* the answer is the LEGACY descriptor of what implementation returned
C6_Witness ==
    /\ pc = "proxy_done"
    /\ {"implementation", "get_implementation"} \subseteq proxy_call.view_methods
    /\ proxy_call.client
    /\ proxy_call.storage = PyStr0x(4)
    /\ proxy_call.get_implementation = PyInt(3)
    /\ proxy_info = StarknetProxy(Address(2), "LEGACY")

-----------------------------------------------------------------------------
(* Properties of the event log decoder *)

SelectorOfEvent(e) == get_selector_from_name(events[e].name)

DistinctSelectors ==
    \A e, f \in 1..Len(events) : e # f => SelectorOfEvent(e) # SelectorOfEvent(f)

\* The keys of raw log i hold the selector of candidate event e
KeysHold(i, e) ==
    \E k \in 1..Len(logs[i]["keys"]) : logs[i]["keys"][k] = SelectorOfEvent(e)

\* The places in the output of the ContractLogs that raw log i yielded
YieldsOf(i) ==
    {k \in 1..Len(delivered) :
        delivered[k].transaction_hash = logs[i]["transaction_hash"]}

\* C4, as claimed: a raw log whose keys hold a candidate selector yields
\* exactly one ContractLog, of a candidate it holds; one whose keys hold
\* none yields none; so there are as many ContractLogs as matching raw logs.
C4_OneLogPerMatchingRawLog ==
    (pc = "logs_exhausted" /\ DistinctSelectors) =>
        /\ \A i \in 1..Len(logs) :
            IF \E e \in 1..Len(events) : KeysHold(i, e)
            THEN /\ Cardinality(YieldsOf(i)) = 1
                 /\ \A k \in YieldsOf(i) : \E e \in 1..Len(events) :
                        KeysHold(i, e) /\ delivered[k].event_name = events[e].name
            ELSE YieldsOf(i) = {}
        /\ Len(delivered) =
               Cardinality({i \in 1..Len(logs) : \E e \in 1..Len(events) : KeysHold(i, e)})

\* C4, amended: a raw log yields exactly one ContractLog for each candidate
\* event whose selector its keys hold, carrying that event's name, and no
\* other; so a raw log yields more than one only when its keys hold several
\* candidate selectors, and there are as many ContractLogs as pairs of a
\* raw log and a candidate event it matches.
C4_OneLogPerMatch ==
    (pc = "logs_exhausted" /\ DistinctSelectors) =>
        /\ \A i \in 1..Len(logs) :
            /\ \A e \in 1..Len(events) :
                   Cardinality({k \in YieldsOf(i) :
                                   delivered[k].event_name = events[e].name})
                       = IF KeysHold(i, e) THEN 1 ELSE 0
            /\ \A k \in YieldsOf(i) : \E e \in 1..Len(events) :
                   delivered[k].event_name = events[e].name
        /\ Len(delivered) =
               Cardinality({<<i, e>> \in (1..Len(logs)) \X (1..Len(events)) :
                               KeysHold(i, e)})

\* Two candidates; one raw log holds both selectors and one holds neither
C4_Witness ==
    /\ pc = "logs_exhausted"
    /\ DistinctSelectors
    /\ Len(events) = 2
    /\ Len(logs) = 2
    /\ KeysHold(1, 1) /\ KeysHold(1, 2)
    /\ ~KeysHold(2, 1) /\ ~KeysHold(2, 2)
    /\ Len(delivered) = 2

SlotWidth(type) == IF type = "Uint256" THEN 2 ELSE 1

\* The slot offset of field i: the slot widths of the fields before it
RECURSIVE SlotOffset(_, _)
SlotOffset(fields, i) ==
    IF i = 1 THEN 0
    ELSE SlotOffset(fields, i - 1) + SlotWidth(fields[i - 1].type)

\* The raw log and the event a ContractLog was made from
RawLogOf(d) ==
    logs[CHOOSE i \in 1..Len(logs) :
             logs[i]["transaction_hash"] = d.transaction_hash]
EventOf(d) == EventBySelector(events, get_selector_from_name(d.event_name))

\* C5: a Uint256 field takes the two data slots at its offset, low then
\* high, and the value low + high * 2^128 is recorded for that field, zero
\* halves included; every other field takes one slot.
C5_WideIntegerReassembly ==
    \A k \in 1..Len(delivered) :
        LET d == delivered[k]
            fields == EventOf(d).inputs
            data == RawLogOf(d)["data"]
        IN  \A i \in 1..Len(fields) :
                (/\ fields[i].type = "Uint256"
                 /\ SlotOffset(fields, i) + 2 <= Len(data))
                => /\ fields[i].name \in DOMAIN d.event_arguments
                   /\ d.event_arguments[fields[i].name]
                          = Wide(data[SlotOffset(fields, i) + 1],
                                 data[SlotOffset(fields, i) + 2])

\* C9: every value in event_arguments is the value decoded from the data
\* slots at the declared offset of the field it is recorded under.
C9_NameValueAlignment ==
    \A k \in 1..Len(delivered) :
        LET d == delivered[k]
            fields == EventOf(d).inputs
            data == RawLogOf(d)["data"]
        IN  \A i \in 1..Len(fields) :
                fields[i].name \in DOMAIN d.event_arguments =>
                    IF fields[i].type = "Uint256"
                    THEN /\ SlotOffset(fields, i) + 2 <= Len(data)
                         /\ d.event_arguments[fields[i].name]
                                = Wide(data[SlotOffset(fields, i) + 1],
                                       data[SlotOffset(fields, i) + 2])
                    ELSE /\ SlotOffset(fields, i) + 1 <= Len(data)
                         /\ d.event_arguments[fields[i].name]
                                = Wide(data[SlotOffset(fields, i) + 1], 0)

\* C7: when decode_logs fails on some raw log, the consumer has received no
\* ContractLog of that call. (The other operations return one value or
\* raise: their result is Raised and nothing else.)
C7_AllOrNothing ==
    pc = "logs_failed" => delivered = <<>>

\* The enumeration index of a selector: the number of distinct candidate
\* selectors that come before it in the order of the events
EnumerationIndex(selector) ==
    LET first == CHOOSE i \in 1..Len(events) :
                     /\ SelectorOfEvent(i) = selector
                     /\ \A j \in 1..(i - 1) : SelectorOfEvent(j) # selector
    IN  Cardinality({SelectorOfEvent(j) : j \in 1..(first - 1)})

\* C10: the log_index of a ContractLog is the enumeration index of its
\* event among the candidate selectors; ContractLogs of one event share it,
\* those of different events differ in it.
C10_LogIndexIsGroupIndex ==
    \A k \in 1..Len(delivered) :
        /\ delivered[k].log_index
               = EnumerationIndex(get_selector_from_name(delivered[k].event_name))
        /\ \A m \in 1..Len(delivered) :
               (delivered[k].event_name = delivered[m].event_name)
                   <=> (delivered[k].log_index = delivered[m].log_index)

\* Two logs of the second of two candidates, none of the first: both carry
\* log_index 1, while their places in the output are 0 and 1
C10_Witness ==
    /\ pc = "logs_exhausted"
    /\ Len(events) = 2
    /\ SelectorOfEvent(1) # SelectorOfEvent(2)
    /\ Len(delivered) = 2
    /\ delivered[1].event_name = events[2].name
    /\ delivered[1].log_index = 1
    /\ delivered[2].log_index = 1

=============================================================================
